---- MODULE Spec2Model ----
(***************************************************************************)
(* Study Buddy (src/app.py): a Streamlit script that extracts the text of  *)
(* an uploaded PDF into the session, and answers questions about it with a *)
(* bounded retry loop around the model call.                               *)
(*                                                                         *)
(* Texts are sequences of one-character (or one-token) strings, so that    *)
(* concatenation, substring search and lower-casing are computed.          *)
(* Optional values (None or a value) are records with a `some' field.      *)
(***************************************************************************)
EXTENDS Integers, Sequences, FiniteSets, TLC

\* ---------------------------------------------------------------- bounds

\* Longest history a session builds before no further question is submitted.
MaxTurns == 2

\* Most pages of a PDF handed to the extractor on its own.
MaxPages == 3

\* ------------------------------------------------------- program constants

\* Mutant: one attempt fewer.
MAX_RETRIES_OneLess == 3 - 1

MAX_RETRIES == 3

RETRY_DELAY_SECONDS == 15

\* --------------------------------------------------------------- helpers

None == [some |-> FALSE, val |-> <<>>]

Some(v) == [some |-> TRUE, val |-> v]

\* Python truthiness of an optional text: None and "" are both falsy.
Truthy(o) == o.some /\ o.val # <<>>

\* `needle in text` for Python strings.
Contains(text, needle) ==
    \E i \in 0..(Len(text) - Len(needle)) :
        \A j \in 1..Len(needle) : text[i + j] = needle[j]

UpperCase == <<"A","B","C","D","E","F","G","H","I","J","K","L","M",
               "N","O","P","Q","R","S","T","U","V","W","X","Y","Z">>

LowerCase == <<"a","b","c","d","e","f","g","h","i","j","k","l","m",
               "n","o","p","q","r","s","t","u","v","w","x","y","z">>

LowerChar(c) ==
    IF \E i \in 1..Len(UpperCase) : UpperCase[i] = c
    THEN LowerCase[CHOOSE i \in 1..Len(UpperCase) : UpperCase[i] = c]
    ELSE c

\* str.lower()
Lower(text) == [i \in 1..Len(text) |-> LowerChar(text[i])]

\* ------------------------------------------------------- PDF processing

\* What page.extract_text() does for a page: it returns None, returns a
\* text, or raises.
NoText == [isNone |-> TRUE, text |-> <<>>, raises |-> FALSE]

PageOf(t) == [isNone |-> FALSE, text |-> t, raises |-> FALSE]

PageRaises == [isNone |-> FALSE, text |-> <<>>, raises |-> TRUE]

DigitStr == <<"1", "2", "3", "4", "5", "6", "7", "8", "9">>

\* Mutant: the marker carries enumerate's 0-based page_number.
PageMarker_ZeroBased(k) ==
    <<"\n--- Page ", IF k = 1 THEN "0" ELSE DigitStr[k - 1], " ---\n">>

\* f"\n--- Page {page_number + 1} ---\n"
PageMarker(k) == <<"\n--- Page ", DigitStr[k], " ---\n">>

\* The loop of extract_text_from_pdf over pages[from..], page numbers 1-based.
RECURSIVE ExtractPages(_, _)
ExtractPages(pages, k) ==
    IF k > Len(pages) THEN <<>>
    ELSE LET page_text == pages[k]
         IN  (IF ~page_text.isNone /\ page_text.text # <<>>
              THEN PageMarker(k) \o page_text.text
              ELSE <<>>) \o ExtractPages(pages, k + 1)

\* Whether the try block raises: PdfReader does, or extract_text of a page.
ExtractRaises(uploaded) ==
    \/ ~uploaded.readable
    \/ \E k \in 1..Len(uploaded.pages) : uploaded.pages[k].raises

\* extract_text_from_pdf: "" from the except branch, else the text built.
extract_text_from_pdf(uploaded) ==
    IF ExtractRaises(uploaded) THEN <<>> ELSE ExtractPages(uploaded.pages, 1)

\* ---------------------------------------------------------- Gemini setup

MODEL_NAME == "gemini-2.5-flash"

\* A GenerativeModel built by load_model for a credential; serial tells the
\* genai.configure call that preceded its construction.
Handle(key, serial) == [api_key |-> key, model_name |-> MODEL_NAME, serial |-> serial]

\* No handle (the variable `model' before load_model returns).
NoModel == [api_key |-> <<>>, model_name |-> "", serial |-> 0]

\* Mutant: the memo is never hit, as without @st.cache_resource.
CacheHit_Never(cache, key) == FALSE

\* load_model under @st.cache_resource: the body runs only on a cache miss,
\* that is when no entry is stored for the argument.
CacheHit(cache, key) == \E h \in cache : h.api_key = key

\* The cache entries after load_model(key); n counts the configure calls so far.
load_model_cache(cache, n, key) ==
    IF CacheHit(cache, key) THEN cache ELSE cache \cup {Handle(key, n + 1)}

\* The number of genai.configure calls after load_model(key).
load_model_configures(cache, n, key) == IF CacheHit(cache, key) THEN n ELSE n + 1

\* The handle load_model(key) returns: the stored one, or the one just built.
load_model(cache, n, key) ==
    IF CacheHit(cache, key)
    THEN CHOOSE h \in cache : h.api_key = key
    ELSE Handle(key, n + 1)

\* ------------------------------------------------------- core RAG function

PromptHead ==
    <<"\nHere is the document you should use to answer questions:\n\n=== DOCUMENT START ===\n">>

PromptMid ==
    <<"\n=== DOCUMENT END ===\n\nBased ONLY on the document above, please answer this question:\n">>

PromptTail == <<"\n">>

\* The f-string of ask_question.
\* Mutant: an empty document gets no delimited section of its own.
Prompt_OmitsEmptyDocument(document_text, question) ==
    IF document_text = <<>>
    THEN question
    ELSE PromptHead \o document_text \o PromptMid \o question \o PromptTail

Prompt(document_text, question) ==
    PromptHead \o document_text \o PromptMid \o question \o PromptTail

Message(role, text) == [role |-> role, parts |-> <<text>>]

\* The replay loop over chat_history: one user and one model message per turn.
RECURSIVE HistoryMessages(_)
HistoryMessages(chat_history) ==
    IF chat_history = <<>> THEN <<>>
    ELSE <<Message("user", Head(chat_history)[1]),
           Message("model", Head(chat_history)[2])>>
         \o HistoryMessages(Tail(chat_history))

\* Mutant: the history is not replayed.
BuildMessages_NoHistory(question, document_text, chat_history) ==
    <<Message("user", Prompt(document_text, question))>>

\* messages as ask_question hands it to model.generate_content.
BuildMessages(question, document_text, chat_history) ==
    Append(HistoryMessages(chat_history),
           Message("user", Prompt(document_text, question)))

\* Mutant: every failure is taken for a rate limit and retried.
IsRateLimit_AnyError(error_message) == TRUE

\* "429" in error_message or "quota" in error_message.lower()
IsRateLimit(error_message) ==
    \/ Contains(error_message, <<"4", "2", "9">>)
    \/ Contains(Lower(error_message), <<"q", "u", "o", "t", "a">>)

\* Mutant: gives up one attempt early.
RetriesRemain_GivesUpEarly(attempt) == attempt < MAX_RETRIES - 1

\* Mutant: off by one the other way, so the last attempt also waits.
RetriesRemain_OffByOne(attempt) == attempt <= MAX_RETRIES

\* attempt < MAX_RETRIES
RetriesRemain(attempt) == attempt < MAX_RETRIES

\* The two result messages, without the cross-mark character they start with.
RateLimitExceededMessage ==
    <<"Rate limit exceeded after multiple retries. ",
      "Please wait a minute and try again. ",
      "Tip: Each student should use their own API key!">>

UnexpectedErrorPrefix == <<"Unexpected error: ">>

UnexpectedErrorMessage(error_message) == UnexpectedErrorPrefix \o error_message

\* ----------------------------------------------------- the environment

\* Credentials typed into the sidebar ("" is the empty text input).
ApiKeys == {<<>>, <<"key1">>, <<"key2">>}

\* What PdfReader makes of the uploaded bytes.
Corrupt == [readable |-> FALSE, pages |-> <<>>]

Scanned == [readable |-> TRUE, pages |-> <<NoText, PageOf(<<>>)>>]

PdfA == [readable |-> TRUE, pages |-> <<PageOf(<<"a">>), NoText, PageOf(<<"b">>)>>]

PdfB == [readable |-> TRUE, pages |-> <<NoText, PageOf(<<"c">>)>>]

NoFile == [some |-> FALSE, name |-> "", readable |-> FALSE, pages |-> <<>>]

UploadedFile(name, pdf) ==
    [some |-> TRUE, name |-> name, readable |-> pdf.readable, pages |-> pdf.pages]

\* The uploads tried: two names, a name reused for other content, content
\* reused under another name, and files that yield no text.
Files == {UploadedFile("a.pdf", PdfA), UploadedFile("a.pdf", PdfB),
          UploadedFile("b.pdf", PdfB), UploadedFile("b.pdf", Corrupt),
          UploadedFile("a.pdf", Scanned)}

Questions == {<<"q", "1">>, <<"q", "2">>}

\* response.text of a successful generate_content call.
Responses == {<<"a", "n", "s">>}

\* str(e) of a failed generate_content call.
Errors == {<<"4", "2", "9", " ", "T", "o", "o">>,
           <<"Q", "u", "o", "t", "a">>,
           <<"5", "0", "0">>,
           <<"4", "2", "8">>}

\* ------------------------------------------------------------- the state

VARIABLES
    session_state,   \* st.session_state: the keys set so far and their values
    api_key,         \* value of the sidebar text input
    uploaded_file,   \* value of the file uploader (NoFile when empty)
    clear_clicked,   \* the Clear Chat History button, TRUE in the run it triggers
    user_question,   \* value of st.chat_input, None except in the run it triggers
    pc,              \* position of the running script; "idle" between runs
    model_cache,     \* st.cache_resource entries of load_model: the handles built
    configures,      \* number of genai.configure calls made
    model,           \* main: the handle load_model returned (NoModel outside)
    messages,        \* ask_question: the message sequence built
    attempt,         \* ask_question: the loop variable
    answer,          \* ask_question: its return value (None while running)
    calls,           \* observed: generate_content calls of this invocation
    sent,            \* observed: the argument of each of these calls
    outcomes,        \* observed: the outcome of each of these calls
    warnings,        \* observed: st.warning calls of this invocation
    waits,           \* observed: time.sleep calls of this invocation
    slept,           \* observed: seconds slept in this invocation
    step,            \* observed: the step the script took last
    prev             \* observed: st.session_state before that step

widgets == <<api_key, uploaded_file, clear_clicked, user_question>>

cache == <<model_cache, configures>>

locals == <<model, messages, attempt, answer>>

observed == <<calls, sent, outcomes, warnings, waits, slept>>

vars == <<session_state, widgets, pc, cache, locals, observed, step, prev>>

\* st.session_state.<key> = value
SetKey(state, key, value) ==
    [state EXCEPT !.keys = @ \cup {key}, ![key] = value]

\* No key is set; the fields of the keys not set hold rest values.
EmptySession ==
    [keys |-> {}, document_text |-> <<>>, last_file |-> "", chat_history |-> <<>>]

HasDocument == "document_text" \in session_state.keys

\* The stored document text ("" when none is stored).
DocumentText == IF HasDocument THEN session_state["document_text"] ELSE <<>>

\* The stored history (empty when the key is not set yet).
ChatHistory ==
    IF "chat_history" \in session_state.keys
    THEN session_state["chat_history"] ELSE <<>>

\* st.session_state.get("last_file") != name
LastFileDiffers(state, name) ==
    "last_file" \notin state.keys \/ state["last_file"] # name

\* Mutant: every run re-processes the uploaded file.
ShouldExtract_Always(state, file) == TRUE

\* The condition under which main() re-processes the uploaded file.
ShouldExtract(state, file) ==
    "document_text" \notin state.keys \/ LastFileDiffers(state, file.name)

\* Mutant: an empty extraction is stored like any other.
ExtractedTextUsable_Always(document_text) == TRUE

\* if document_text:
ExtractedTextUsable(document_text) == document_text # <<>>

\* Mutant: the history survives a load.
StoreDocument_KeepsHistory(state, document_text, name) ==
    SetKey(SetKey(state, "document_text", document_text), "last_file", name)

\* The three assignments of a successful load.
StoreDocument(state, document_text, name) ==
    SetKey(SetKey(SetKey(state, "document_text", document_text),
                  "last_file", name),
           "chat_history", <<>>)

\* Mutant: the whole session is cleared.
ClearChatHistory_ClearsSession(state) == SetKey(EmptySession, "chat_history", <<>>)

\* The button handler's assignment.
ClearChatHistory(state) == SetKey(state, "chat_history", <<>>)

\* if "chat_history" not in st.session_state: st.session_state.chat_history = []
EnsureChatHistory(state) ==
    IF "chat_history" \notin state.keys
    THEN SetKey(state, "chat_history", <<>>) ELSE state

\* Mutant: the guard on the document never stops the run.
DocumentMissing_Never(state) == FALSE

\* Guard: "document_text" not in st.session_state
DocumentMissing(state) == "document_text" \notin state.keys

\* Mutant: the guard on the credential never stops the run.
CredentialMissing_Never(key) == FALSE

\* Guard: not api_key
CredentialMissing(key) == key = <<>>

\* Mutant: the new turn replaces the history.
AppendTurn_Overwrites(state, question, result) ==
    SetKey(state, "chat_history", <<<<question, result>>>>)

\* Mutant: a result that is an error message is not kept.
AppendTurn_DropsErrors(state, question, result) ==
    IF \/ result = RateLimitExceededMessage
       \/ SubSeq(result, 1, Len(UnexpectedErrorPrefix)) = UnexpectedErrorPrefix
    THEN state
    ELSE SetKey(state, "chat_history",
                Append(state["chat_history"], <<question, result>>))

\* st.session_state.chat_history.append((user_question, answer))
AppendTurn(state, question, result) ==
    SetKey(state, "chat_history", Append(state["chat_history"], <<question, result>>))

Init ==
    /\ session_state = EmptySession
    /\ api_key = <<>>
    /\ uploaded_file = NoFile
    /\ clear_clicked = FALSE
    /\ user_question = None
    /\ pc = "idle"
    /\ model_cache = {}
    /\ configures = 0
    /\ model = NoModel
    /\ messages = <<>>
    /\ attempt = 0
    /\ answer = None
    /\ calls = 0
    /\ sent = <<>>
    /\ outcomes = <<>>
    /\ warnings = 0
    /\ waits = 0
    /\ slept = 0
    /\ step = "init"
    /\ prev = EmptySession

\* ---------------------------------------- user events (each starts a run)

\* What a step records for the observer.
Did(name) == step' = name /\ prev' = session_state

\* A run of the script starts at the sidebar.
StartRun == pc' = "sidebar"

\* Mutant: a widget event starts a run while ask_question waits.
ScriptIdle_DuringWait == pc \in {"idle", "sleep"}

\* main() has run to its end: the script is one thread of straight-line
\* code, so the next widget event is served by the next run.
ScriptIdle == pc = "idle"

EnterApiKey(key) ==
    /\ ScriptIdle
    /\ Did("event")
    /\ key # api_key
    /\ api_key' = key
    /\ StartRun
    /\ UNCHANGED <<session_state, uploaded_file, clear_clicked, user_question,
                   cache, locals, observed>>

\* Choosing another file, or removing the file (NoFile).
UploadFile(file) ==
    /\ ScriptIdle
    /\ Did("event")
    /\ file # uploaded_file
    /\ uploaded_file' = file
    /\ StartRun
    /\ UNCHANGED <<session_state, api_key, clear_clicked, user_question,
                   cache, locals, observed>>

ClickClear ==
    /\ ScriptIdle
    /\ Did("event")
    /\ clear_clicked' = TRUE
    /\ StartRun
    /\ UNCHANGED <<session_state, api_key, uploaded_file, user_question,
                   cache, locals, observed>>

SubmitQuestion(question) ==
    /\ ScriptIdle
    /\ Did("event")
    /\ Len(ChatHistory) < MaxTurns
    /\ user_question' = Some(question)
    /\ StartRun
    /\ UNCHANGED <<session_state, api_key, uploaded_file, clear_clicked,
                   cache, locals, observed>>

\* A re-run with no widget changed.
Rerender ==
    /\ ScriptIdle
    /\ Did("event")
    /\ StartRun
    /\ UNCHANGED <<session_state, widgets, cache, locals, observed>>

\* ------------------------------------------------ main(): the sidebar

\* No file in the uploader, or the file is the one already loaded.
SkipExtraction ==
    /\ pc = "sidebar"
    /\ Did("skip")
    /\ ~(uploaded_file.some /\ ShouldExtract(session_state, uploaded_file))
    /\ pc' = "button"
    /\ UNCHANGED <<session_state, widgets, cache, locals, observed>>

\* Extraction ran and gave text: the document is stored, the history reset.
LoadDocument ==
    /\ pc = "sidebar"
    /\ Did("load")
    /\ uploaded_file.some /\ ShouldExtract(session_state, uploaded_file)
    /\ LET document_text == extract_text_from_pdf(uploaded_file)
       IN  /\ ExtractedTextUsable(document_text)
           /\ session_state' =
                  StoreDocument(session_state, document_text, uploaded_file.name)
    /\ pc' = "button"
    /\ UNCHANGED <<widgets, cache, locals, observed>>

\* Extraction ran and gave "": only the error is shown.
ExtractionFails ==
    /\ pc = "sidebar"
    /\ Did("fail")
    /\ uploaded_file.some /\ ShouldExtract(session_state, uploaded_file)
    /\ ~ExtractedTextUsable(extract_text_from_pdf(uploaded_file))
    /\ pc' = "button"
    /\ UNCHANGED <<session_state, widgets, cache, locals, observed>>

\* The button was clicked: reset the history and st.rerun(), which restarts
\* the script with the button and the chat input back to their rest values.
ClearHistory ==
    /\ pc = "button"
    /\ Did("clear")
    /\ clear_clicked
    /\ session_state' = ClearChatHistory(session_state)
    /\ clear_clicked' = FALSE
    /\ user_question' = None
    /\ pc' = "sidebar"
    /\ UNCHANGED <<api_key, uploaded_file, cache, locals, observed>>

NoClear ==
    /\ pc = "button"
    /\ Did("noclear")
    /\ ~clear_clicked
    /\ pc' = "chat"
    /\ UNCHANGED <<session_state, widgets, cache, locals, observed>>

\* ---------------------------------------------- main(): the chat area

\* The run ends: the script returns and waits for the next event.
EndRun ==
    /\ pc' = "idle"
    /\ user_question' = None
    /\ UNCHANGED <<api_key, uploaded_file, clear_clicked>>

GuardNoDocument ==
    /\ pc = "chat"
    /\ Did("end")
    /\ session_state' = EnsureChatHistory(session_state)
    /\ DocumentMissing(session_state')
    /\ EndRun
    /\ UNCHANGED <<cache, locals, observed>>

GuardNoApiKey ==
    /\ pc = "chat"
    /\ Did("end")
    /\ session_state' = EnsureChatHistory(session_state)
    /\ ~DocumentMissing(session_state')
    /\ CredentialMissing(api_key)
    /\ EndRun
    /\ UNCHANGED <<cache, locals, observed>>

\* The history is displayed and the chat input holds no question.
NoQuestion ==
    /\ pc = "chat"
    /\ Did("end")
    /\ session_state' = EnsureChatHistory(session_state)
    /\ ~DocumentMissing(session_state')
    /\ ~CredentialMissing(api_key)
    /\ ~Truthy(user_question)
    /\ EndRun
    /\ UNCHANGED <<cache, locals, observed>>

\* A question is in: load_model, then ask_question up to its retry loop.
AskQuestion ==
    /\ pc = "chat"
    /\ Did("ask")
    /\ session_state' = EnsureChatHistory(session_state)
    /\ ~DocumentMissing(session_state')
    /\ ~CredentialMissing(api_key)
    /\ Truthy(user_question)
    /\ model_cache' = load_model_cache(model_cache, configures, api_key)
    /\ model' = load_model(model_cache, configures, api_key)
    /\ configures' = load_model_configures(model_cache, configures, api_key)
    /\ messages' = BuildMessages(user_question.val,
                                 session_state'["document_text"],
                                 session_state'["chat_history"])
    /\ attempt' = 1
    /\ answer' = None
    /\ pc' = "generate"
    /\ UNCHANGED <<widgets, observed>>

\* --------------------------------------- ask_question: the retry loop

\* model.generate_content(messages) is called; its outcome is recorded.
CallModel(outcome) ==
    /\ calls' = calls + 1
    /\ sent' = Append(sent, messages)
    /\ outcomes' = Append(outcomes, outcome)

Success(text) == [ok |-> TRUE, text |-> text]

Failure(error_message) == [ok |-> FALSE, text |-> error_message]

\* return response.text
GenerateSucceeds(text) ==
    /\ pc = "generate"
    /\ Did("call")
    /\ CallModel(Success(text))
    /\ answer' = Some(text)
    /\ pc' = "append"
    /\ UNCHANGED <<session_state, widgets, cache, model, messages, attempt,
                   warnings, waits, slept>>

\* Rate-limit signature and attempts remain: warn, then wait.
RateLimitedRetry(error_message) ==
    /\ pc = "generate"
    /\ Did("call")
    /\ CallModel(Failure(error_message))
    /\ IsRateLimit(error_message)
    /\ RetriesRemain(attempt)
    /\ warnings' = warnings + 1
    /\ pc' = "sleep"
    /\ UNCHANGED <<session_state, widgets, cache, locals, waits, slept>>

\* Rate-limit signature on the last attempt: the fixed message.
RateLimitExhausted(error_message) ==
    /\ pc = "generate"
    /\ Did("call")
    /\ CallModel(Failure(error_message))
    /\ IsRateLimit(error_message)
    /\ ~RetriesRemain(attempt)
    /\ answer' = Some(RateLimitExceededMessage)
    /\ pc' = "append"
    /\ UNCHANGED <<session_state, widgets, cache, model, messages, attempt,
                   warnings, waits, slept>>

\* Any other failure: the raw error text in a message, at once.
UnexpectedError(error_message) ==
    /\ pc = "generate"
    /\ Did("call")
    /\ CallModel(Failure(error_message))
    /\ ~IsRateLimit(error_message)
    /\ answer' = Some(UnexpectedErrorMessage(error_message))
    /\ pc' = "append"
    /\ UNCHANGED <<session_state, widgets, cache, model, messages, attempt,
                   warnings, waits, slept>>

\* time.sleep(RETRY_DELAY_SECONDS), then the next iteration of
\* `for attempt in range(1, MAX_RETRIES + 1)`; a loop that runs out
\* falls off the end of the function, which returns None.
Sleep ==
    /\ pc = "sleep"
    /\ Did("sleep")
    /\ waits' = waits + 1
    /\ slept' = slept + RETRY_DELAY_SECONDS
    /\ attempt' = attempt + 1
    /\ IF attempt' \in 1..MAX_RETRIES
       THEN pc' = "generate"
       ELSE pc' = "append"
    /\ answer' = None
    /\ UNCHANGED <<session_state, widgets, cache, model, messages,
                   calls, sent, outcomes, warnings>>

\* Back in main(): the turn is appended and the run ends.  (A None answer
\* is stored as the empty text.)
AppendAnswer ==
    /\ pc = "append"
    /\ Did("append")
    /\ session_state' = AppendTurn(session_state, user_question.val, answer.val)
    /\ model' = NoModel
    /\ messages' = <<>>
    /\ attempt' = 0
    /\ answer' = None
    /\ calls' = 0
    /\ sent' = <<>>
    /\ outcomes' = <<>>
    /\ warnings' = 0
    /\ waits' = 0
    /\ slept' = 0
    /\ EndRun
    /\ UNCHANGED cache

\* ------------------------------------------------------ specification

\* Every step but the append that ends a question's run.
StepBeforeAppend ==
    \/ \E key \in ApiKeys : EnterApiKey(key)
    \/ \E file \in Files \cup {NoFile} : UploadFile(file)
    \/ ClickClear
    \/ \E question \in Questions : SubmitQuestion(question)
    \/ Rerender
    \/ SkipExtraction
    \/ LoadDocument
    \/ ExtractionFails
    \/ ClearHistory
    \/ NoClear
    \/ GuardNoDocument
    \/ GuardNoApiKey
    \/ NoQuestion
    \/ AskQuestion
    \/ \E text \in Responses : GenerateSucceeds(text)
    \/ \E error_message \in Errors : RateLimitedRetry(error_message)
    \/ \E error_message \in Errors : RateLimitExhausted(error_message)
    \/ \E error_message \in Errors : UnexpectedError(error_message)
    \/ Sleep

Next ==
    \/ StepBeforeAppend
    \/ AppendAnswer

Spec == Init /\ [][Next]_vars

\* ---------------------------------- the extractor on PDFs of every shape

PageKinds == {NoText, PageOf(<<>>), PageOf(<<"a">>), PageOf(<<"b", "c">>), PageRaises}

\* Every page sequence of at most MaxPages pages.
PageSeqs == UNION {[1..n -> PageKinds] : n \in 0..MaxPages}

\* The uploads of a fresh session: any readable PDF, or an unreadable file.
AnyUploads ==
    {UploadedFile("a.pdf", [readable |-> TRUE, pages |-> ps]) : ps \in PageSeqs}
        \cup {UploadedFile("a.pdf", Corrupt)}

\* A fresh session whose first run starts with some file in the uploader.
ExtractInit ==
    /\ session_state = EmptySession
    /\ api_key = <<>>
    /\ uploaded_file \in AnyUploads
    /\ clear_clicked = FALSE
    /\ user_question = None
    /\ pc = "sidebar"
    /\ model_cache = {}
    /\ configures = 0
    /\ model = NoModel
    /\ messages = <<>>
    /\ attempt = 0
    /\ answer = None
    /\ calls = 0
    /\ sent = <<>>
    /\ outcomes = <<>>
    /\ warnings = 0
    /\ waits = 0
    /\ slept = 0
    /\ step = "event"
    /\ prev = EmptySession

\* The sidebar step that calls extract_text_from_pdf.
ExtractNext == LoadDocument \/ ExtractionFails

ExtractSpec == ExtractInit /\ [][ExtractNext]_vars

\* ------------------------------------------------- ask_question: claims

\* ask_question has returned to main() and its result is not yet appended.
Returned == pc = "append"

\* The rate-limit signature as the specification words it.
HasRateLimitSignature(text) ==
    \/ \E i \in 1..(Len(text) - 2) :
           text[i] = "4" /\ text[i + 1] = "2" /\ text[i + 2] = "9"
    \/ \E i \in 1..(Len(text) - 4) :
           /\ text[i] \in {"q", "Q"}
           /\ text[i + 1] \in {"u", "U"}
           /\ text[i + 2] \in {"o", "O"}
           /\ text[i + 3] \in {"t", "T"}
           /\ text[i + 4] \in {"a", "A"}

RateLimited(outcome) == ~outcome.ok /\ HasRateLimitSignature(outcome.text)

OtherFailure(outcome) == ~outcome.ok /\ ~HasRateLimitSignature(outcome.text)

\* C1: when every model call of an invocation fails with a rate-limit
\* signature, ask_question returns only after exactly 3 calls, with the fixed
\* rate-limit-exceeded message, and never makes a 4th call.
C1_RateLimitExhausted ==
    (\A i \in 1..Len(outcomes) : RateLimited(outcomes[i])) =>
        /\ calls <= 3
        /\ Returned => /\ calls = 3
                       /\ answer = Some(RateLimitExceededMessage)

C1_Witness ==
    /\ Returned
    /\ Len(outcomes) = 3
    /\ \A i \in 1..3 : RateLimited(outcomes[i])
    /\ answer = Some(RateLimitExceededMessage)

\* C2: a model call that fails without a rate-limit signature is the last
\* call of the invocation: ask_question has returned, with the raw error text
\* embedded in its message, and has waited only after the earlier attempts;
\* when it is the first attempt, exactly 1 call was made and no wait.
C2_OtherFailureReturnsAtOnce ==
    \A i \in 1..Len(outcomes) :
        OtherFailure(outcomes[i]) =>
            /\ i = Len(outcomes)
            /\ calls = i
            /\ Returned
            /\ answer = Some(<<"Unexpected error: ">> \o outcomes[i].text)
            /\ waits = i - 1
            /\ slept = 15 * (i - 1)

C2_Witness ==
    /\ Returned
    /\ Len(outcomes) = 1
    /\ OtherFailure(outcomes[1])
    /\ calls = 1
    /\ waits = 0
    /\ answer = Some(<<"Unexpected error: ", "4", "2", "8">>)

\* C3: rate-limit failures on attempts 1 and 2 are followed by a third
\* attempt; when it succeeds, ask_question has waited exactly twice, 15
\* seconds each, made exactly 3 calls, and returns the response text unchanged.
C3_SucceedsOnThirdAttempt ==
    /\ (Len(outcomes) = 2 /\ RateLimited(outcomes[1]) /\ RateLimited(outcomes[2]))
           => ~Returned
    /\ (/\ Len(outcomes) = 3
        /\ RateLimited(outcomes[1])
        /\ RateLimited(outcomes[2])
        /\ outcomes[3].ok)
           => /\ Returned
              /\ waits = 2
              /\ slept = 2 * 15
              /\ calls = 3
              /\ answer = Some(outcomes[3].text)

C3_Witness ==
    /\ Returned
    /\ Len(outcomes) = 3
    /\ RateLimited(outcomes[1])
    /\ RateLimited(outcomes[2])
    /\ outcomes[3].ok
    /\ waits = 2
    /\ answer = Some(<<"a", "n", "s">>)

\* The three shapes of a result of ask_question.
IsResult(text) ==
    \/ \E i \in 1..Len(outcomes) : outcomes[i].ok /\ text = outcomes[i].text
    \/ text = RateLimitExceededMessage
    \/ \E i \in 1..Len(outcomes) :
           ~outcomes[i].ok /\ text = <<"Unexpected error: ">> \o outcomes[i].text

\* C4: whatever the outcomes of the model calls, an invocation makes at most
\* 3 calls, every call but the last is followed by another attempt or by the
\* return, and it returns a text that is the generated answer, the fixed
\* rate-limit message or the unexpected-error message, never no result.
C4_AlwaysReturnsText ==
    /\ calls <= 3
    /\ calls = Len(outcomes)
    /\ pc = "generate" => attempt = calls + 1 /\ attempt <= 3
    /\ pc = "sleep" => attempt = calls /\ attempt < 3
    /\ Returned => /\ calls >= 1
                   /\ answer.some
                   /\ IsResult(answer.val)

C4_Witness ==
    /\ Returned
    /\ calls = 2
    /\ RateLimited(outcomes[1])
    /\ OtherFailure(outcomes[2])
    /\ answer.some

NewFileProcessed ==
    /\ pc = "button"
    /\ uploaded_file.some
    /\ \/ "document_text" \notin prev.keys
       \/ "last_file" \notin prev.keys
       \/ prev.last_file # uploaded_file.name

\* C6: after a new document load, whatever turns were completed before, the
\* history is empty and the stored text is exactly the text extracted from
\* the new file.
C6_LoadResetsHistory ==
    (NewFileProcessed /\ extract_text_from_pdf(uploaded_file) # <<>>) =>
        /\ {"document_text", "last_file", "chat_history"} \subseteq session_state.keys
        /\ session_state.chat_history = <<>>
        /\ session_state.document_text = extract_text_from_pdf(uploaded_file)
        /\ session_state.last_file = uploaded_file.name

C6_Witness ==
    /\ NewFileProcessed
    /\ step = "load"
    /\ "document_text" \in prev.keys
    /\ Len(prev.chat_history) = 2
    /\ prev.document_text # session_state.document_text
    /\ session_state.chat_history = <<>>

\* C7: the clear-history action leaves the history empty and the document
\* text and the last-loaded-filename marker as they were, set or not.
C7_ClearKeepsDocument ==
    step = "clear" =>
        /\ "chat_history" \in session_state.keys
        /\ session_state.chat_history = <<>>
        /\ session_state.document_text = prev.document_text
        /\ session_state.last_file = prev.last_file
        /\ session_state.keys \ {"chat_history"} = prev.keys \ {"chat_history"}

C7_Witness ==
    /\ step = "clear"
    /\ HasDocument
    /\ session_state.document_text # <<>>
    /\ Len(prev.chat_history) = 2
    /\ session_state.chat_history = <<>>

\* C8: a run that reaches the chat area with a question, a document and a
\* credential calls ask_question; ask_question leaves chat_history as it is;
\* and at its return exactly the turn (question, result) is appended at the
\* end of the history, after which the run ends.
C8_OneTurnPerQuestion ==
    [][/\ (pc = "chat" /\ Truthy(user_question) /\ HasDocument /\ api_key # <<>>)
           => (pc' = "generate" /\ ChatHistory' = ChatHistory)
       /\ pc \in {"generate", "sleep"}
           => (pc' \in {"generate", "sleep", "append"}
               /\ session_state' = session_state
               /\ user_question' = user_question)
       /\ pc = "append"
           => (/\ session_state'.chat_history =
                     session_state.chat_history
                         \o <<<<user_question.val, answer.val>>>>
               /\ pc' = "idle"
               /\ user_question' = None)]_vars

C8_Witness ==
    /\ step = "append"
    /\ pc = "idle"
    /\ Len(session_state.chat_history) = 2
    /\ prev.chat_history = SubSeq(session_state.chat_history, 1, 1)
    /\ session_state.chat_history[1][2] = <<"a", "n", "s">>
    /\ session_state.chat_history[2][2] = RateLimitExceededMessage

\* C9: the history is non-empty only if a document text is stored.
C9_HistoryNeedsDocument ==
    ChatHistory # <<>> => (HasDocument /\ DocumentText # <<>>)

C9_Witness ==
    /\ Len(ChatHistory) = 2
    /\ HasDocument
    /\ step = "fail"

\* C10: when extraction of a re-processed file gives no text (the reader
\* fails or no page has text), the session is as before the upload, and a
\* question asked with that file still in the uploader is answered from the
\* document stored before.
C10_FailedUploadKeepsSession ==
    /\ (NewFileProcessed /\ extract_text_from_pdf(uploaded_file) = <<>>)
           => session_state = prev
    /\ (/\ pc = "generate"
        /\ uploaded_file.some
        /\ extract_text_from_pdf(uploaded_file) = <<>>
        /\ session_state.last_file # uploaded_file.name)
           => /\ DocumentText # <<>>
              /\ messages[Len(messages)].parts =
                     <<Prompt(DocumentText, user_question.val)>>
              /\ Len(messages) = 2 * Len(ChatHistory) + 1

C10_Witness ==
    /\ pc = "generate"
    /\ uploaded_file = UploadedFile("b.pdf", Corrupt)
    /\ session_state.last_file = "a.pdf"
    /\ Len(ChatHistory) = 1
    /\ Len(messages) = 3

\* ------------------------------------------------------ load_model: claims

\* C11: at most one handle is built, and genai.configure run, per distinct
\* credential: entries are never rebuilt or dropped, and a load_model call with
\* a credential that has an entry returns that entry and configures nothing.
C11_OneHandlePerCredential ==
    [][/\ model_cache \subseteq model_cache'
       /\ \A h1, h2 \in model_cache' : h1.api_key = h2.api_key => h1 = h2
       /\ configures' = Cardinality(model_cache')
       /\ (pc = "chat" /\ pc' = "generate")
              => /\ model' \in model_cache'
                 /\ model'.api_key = api_key
                 /\ (\E h \in model_cache : h.api_key = api_key)
                        => /\ model' \in model_cache
                           /\ model_cache' = model_cache
                           /\ configures' = configures]_vars

C11_Witness ==
    /\ pc = "generate"
    /\ step = "ask"
    /\ configures = 2
    /\ Cardinality(model_cache) = 2
    /\ model.serial = 1
    /\ model.api_key = api_key

\* ----------------------------------------- extract_text_from_pdf: claims

\* What extract_text_from_pdf returned in the sidebar step just taken:
\* main() stores it when it is non-empty, and it is "" otherwise.
ExtractedText == IF step = "load" THEN session_state.document_text ELSE <<>>

\* The pages whose extract_text returned a non-empty text.
TextPages(pages) ==
    {k \in 1..Len(pages) :
        ~pages[k].raises /\ ~pages[k].isNone /\ pages[k].text # <<>>}

\* The places of text T at which the marker of page k stands.
MarkersOf(T, k) ==
    {i \in 1..(Len(T) - 2) :
        T[i] = "\n--- Page " /\ T[i + 1] = DigitStr[k] /\ T[i + 2] = " ---\n"}

\* T holds exactly one marker for each page with text and no other, the
\* markers stand in page order, each is followed by its page's text, and
\* that text is followed by the next marker or the end of T.
MarkersMatch(T, pages) ==
    LET Pos(k) == CHOOSE i \in MarkersOf(T, k) : TRUE
    IN  /\ \A k \in TextPages(pages) : Cardinality(MarkersOf(T, k)) = 1
        /\ Cardinality({i \in 1..Len(T) : T[i] = "\n--- Page "})
               = Cardinality(TextPages(pages))
        /\ T # <<>> => T[1] = "\n--- Page "
        /\ \A k \in TextPages(pages) :
               LET text == pages[k].text
                   last == Pos(k) + 2 + Len(text)
               IN  /\ last <= Len(T)
                   /\ SubSeq(T, Pos(k) + 3, last) = text
                   /\ last = Len(T) \/ T[last + 1] = "\n--- Page "
        /\ \A k1, k2 \in TextPages(pages) : k1 < k2 => Pos(k1) < Pos(k2)

\* The pages the loop got through: those before the first one that raises.
PagesRead(pages) ==
    SubSeq(pages, 1,
           IF \E k \in 1..Len(pages) : pages[k].raises
           THEN (CHOOSE k \in 1..Len(pages) :
                    pages[k].raises /\ \A j \in 1..(k - 1) : ~pages[j].raises) - 1
           ELSE Len(pages))

\* C12 as stated: for every PDF the extracted text holds the marker and the
\* text of each page whose extracted text is non-empty.
C12_MarkersForEveryPdf ==
    pc = "button" => MarkersMatch(ExtractedText, PagesRead(uploaded_file.pages))

\* C12, amended: for every PDF that PdfReader and every page's extract_text
\* read without raising, the extracted text holds exactly one marker per page
\* with non-empty text, in page order, each followed by that page's text, and
\* nothing for the other pages; when reading raises, the extracted text is
\* empty, whatever text the pages before gave.
C12_MarkersUnlessReadingRaises ==
    pc = "button" =>
        IF ExtractRaises(uploaded_file)
        THEN ExtractedText = <<>> /\ step = "fail"
        ELSE /\ MarkersMatch(ExtractedText, uploaded_file.pages)
             /\ (step = "load") = (TextPages(uploaded_file.pages) # {})

C12_Witness ==
    /\ pc = "button"
    /\ step = "load"
    /\ uploaded_file.pages = <<PageOf(<<"b", "c">>), NoText, PageOf(<<"a">>)>>
    /\ ExtractedText =
           <<"\n--- Page ", "1", " ---\n", "b", "c", "\n--- Page ", "3", " ---\n", "a">>

\* ------------------------------------------------ main(): more claims

\* C13: a handle is built, the model called and a turn appended only in a
\* run that has a stored document text and a non-empty credential; a run
\* that reaches the chat area without one of them ends there, with the
\* handle cache, the call count and the history as they were.
C13_GatedByDocumentAndCredential ==
    [][/\ (pc = "chat" /\ (api_key = <<>> \/ ~HasDocument))
              => /\ pc' = "idle"
                 /\ model_cache' = model_cache
                 /\ configures' = configures
                 /\ calls' = 0
                 /\ ChatHistory' = ChatHistory
       /\ (\/ model_cache' # model_cache
           \/ configures' # configures
           \/ calls' > calls
           \/ Len(ChatHistory') > Len(ChatHistory))
              => /\ HasDocument' /\ DocumentText' # <<>>
                 /\ api_key # <<>>
       /\ \A h \in model_cache' : h.api_key # <<>>]_vars

C13_Witness ==
    /\ pc = "chat"
    /\ Truthy(user_question)
    /\ api_key = <<>>
    /\ HasDocument
    /\ Len(ChatHistory) = 1
    /\ model_cache # {}

\* C14: a run whose uploaded file bears the marker's name while a document
\* is stored takes the sidebar without extraction and without touching the
\* session; extraction runs only when no document is stored or the name
\* differs from the marker; and the rest of a run with no click and no
\* question leaves document and history alone, so the history survives
\* re-renders with the same file still uploaded.
C14_SameNameSkipsExtraction ==
    [][/\ (/\ pc = "sidebar"
           /\ uploaded_file.some
           /\ {"document_text", "last_file"} \subseteq session_state.keys
           /\ session_state.last_file = uploaded_file.name)
              => (step' = "skip" /\ session_state' = session_state)
       /\ step' \in {"load", "fail"}
              => /\ pc = "sidebar"
                 /\ uploaded_file.some
                 /\ \/ ~HasDocument
                    \/ "last_file" \notin session_state.keys
                    \/ session_state.last_file # uploaded_file.name
       /\ (pc \in {"button", "chat"} /\ ~clear_clicked /\ ~Truthy(user_question))
              => /\ ChatHistory' = ChatHistory
                 /\ DocumentText' = DocumentText]_vars

C14_Witness ==
    /\ pc = "button"
    /\ step = "skip"
    /\ uploaded_file = UploadedFile("a.pdf", PdfB)
    /\ session_state.last_file = "a.pdf"
    /\ DocumentText = <<"\n--- Page ", "1", " ---\n", "a", "\n--- Page ", "3", " ---\n", "b">>
    /\ Len(ChatHistory) = 2
    /\ prev = session_state

\* ------------------------------------------- ask_question: more claims

\* C15: the i-th wait follows the i-th attempt, which failed with a
\* rate-limit signature and was not the third; one warning is shown before
\* each wait and none otherwise; so at the return of every invocation the
\* waits equal the warnings, are at most 2, and are one fewer than the calls.
C15_WaitsFollowWarnings ==
    /\ waits <= 2
    /\ warnings <= 2
    /\ warnings <= Len(outcomes)
    /\ \A i \in 1..warnings : RateLimited(outcomes[i])
    /\ pc = "sleep" => /\ warnings = waits + 1
                       /\ warnings = calls
    /\ pc # "sleep" => warnings = waits
    /\ pc = "generate" => waits = calls
    /\ Returned => waits = calls - 1

C15_Witness ==
    /\ Returned
    /\ calls = 3
    /\ waits = 2
    /\ warnings = 2
    /\ slept = 30
    /\ RateLimited(outcomes[3])

\* One of the two error results of ask_question.
IsErrorString(text) ==
    \/ text = <<"Rate limit exceeded after multiple retries. ",
                "Please wait a minute and try again. ",
                "Tip: Each student should use their own API key!">>
    \/ (text # <<>> /\ text[1] = "Unexpected error: ")

\* C16: when ask_question returns an error string, the turn (question,
\* error string) becomes the last turn of the history; turns stay in place
\* until the history is reset; and every sequence sent to the model for a
\* later question replays the error string of such a turn as a model message
\* after its question.
C16_FailedTurnIsReplayed ==
    [][/\ (pc = "append" /\ answer.some /\ IsErrorString(answer.val))
              => /\ Len(ChatHistory') = Len(ChatHistory) + 1
                 /\ ChatHistory'[Len(ChatHistory')] =
                        <<user_question.val, answer.val>>
       /\ \/ ChatHistory' = <<>>
          \/ /\ Len(ChatHistory') >= Len(ChatHistory)
             /\ \A i \in 1..Len(ChatHistory) : ChatHistory'[i] = ChatHistory[i]
       /\ \A n \in 1..Len(sent') :
              \A i \in 1..Len(ChatHistory') :
                  IsErrorString(ChatHistory'[i][2])
                      => /\ Len(sent'[n]) >= 2 * i
                         /\ sent'[n][2 * i - 1] =
                                [role |-> "user", parts |-> <<ChatHistory'[i][1]>>]
                         /\ sent'[n][2 * i] =
                                [role |-> "model", parts |-> <<ChatHistory'[i][2]>>]]_vars

C16_Witness ==
    /\ Len(sent) = 2
    /\ Len(ChatHistory) = 1
    /\ ChatHistory[1][2] = <<"Unexpected error: ", "5", "0", "0">>
    /\ sent[2][2] = [role |-> "model",
                     parts |-> <<<<"Unexpected error: ", "5", "0", "0">>>>]

\* ------------------- ask_question called with arguments of every shape

\* The handle a caller other than main() passes; load_model numbers its
\* handles from 1, so main() never holds this one.
DirectModel == Handle(<<"key1">>, 0)

ArgDocuments == {<<>>, extract_text_from_pdf(UploadedFile("a.pdf", PdfA))}

ArgQuestions == {<<>>} \cup Questions

ArgHistories == {<<>>, <<<< <<"q", "1">>, <<"a", "n", "s">> >>>>}

\* A caller about to call ask_question(model, document_text, question,
\* chat_history): session_state holds the document and the history it
\* passes, user_question the question, as main() holds them at its call.
DirectInit ==
    /\ \E document_text \in ArgDocuments, chat_history \in ArgHistories :
           session_state = [keys |-> {"document_text", "chat_history"},
                            document_text |-> document_text,
                            last_file |-> "",
                            chat_history |-> chat_history]
    /\ api_key = <<>>
    /\ uploaded_file = NoFile
    /\ clear_clicked = FALSE
    /\ user_question \in {Some(question) : question \in ArgQuestions}
    /\ pc = "direct"
    /\ model_cache = {}
    /\ configures = 0
    /\ model = DirectModel
    /\ messages = <<>>
    /\ attempt = 0
    /\ answer = None
    /\ calls = 0
    /\ sent = <<>>
    /\ outcomes = <<>>
    /\ warnings = 0
    /\ waits = 0
    /\ slept = 0
    /\ step = "init"
    /\ prev = EmptySession

\* ask_question from its entry to its retry loop; nothing is tested on the
\* way.
DirectAsk ==
    /\ pc = "direct"
    /\ Did("ask")
    /\ messages' = BuildMessages(user_question.val,
                                 session_state["document_text"],
                                 session_state["chat_history"])
    /\ attempt' = 1
    /\ answer' = None
    /\ pc' = "generate"
    /\ UNCHANGED <<session_state, widgets, cache, model, observed>>

\* The direct call has returned to its caller, which is not main().
DirectReturned == model = DirectModel /\ pc = "append"

EdgeInit == Init \/ DirectInit

EdgeNext ==
    \/ DirectAsk
    \/ StepBeforeAppend
    \/ (~DirectReturned /\ AppendAnswer)

EdgeSpec == EdgeInit /\ [][EdgeNext]_vars

\* ------------------------------------------------- empty inputs: claims

\* ask_question is running on a direct call.
InDirectCall == model = DirectModel /\ pc \in {"generate", "sleep", "append"}

\* ask_question, called directly, rejects nothing: the last message is the
\* prompt with the document text, empty or not, between the delimiters and
\* the question, empty or not, after them, and the model is called with it.
DirectCallEmbedsAndCalls ==
    /\ InDirectCall' =>
           /\ messages'[Len(messages')] =
                  [role |-> "user",
                   parts |-> <<PromptHead \o session_state'.document_text
                                   \o PromptMid \o user_question'.val
                                   \o PromptTail>>]
           /\ Len(messages') = 2 * Len(session_state'.chat_history) + 1
    /\ (model = DirectModel /\ pc = "generate") =>
           /\ calls' = calls + 1
           /\ sent'[calls'] = messages

\* The file in the uploader is a readable PDF none of whose pages has text,
\* and main() is about to process it.
EmptyTextExtracted ==
    /\ pc = "sidebar"
    /\ uploaded_file.some
    /\ ShouldExtract(session_state, uploaded_file)
    /\ ~ExtractRaises(uploaded_file)
    /\ extract_text_from_pdf(uploaded_file) = <<>>

\* C17 as stated: no empty input is rejected: an empty question and an empty
\* document text reach the prompt and the model like any other input, so an
\* extracted text that is empty becomes the document like any other.
C17_NoEmptyInputRejected ==
    [][/\ DirectCallEmbedsAndCalls
       /\ EmptyTextExtracted => (HasDocument' /\ DocumentText' = <<>>)]_vars

\* C17, amended: ask_question itself rejects nothing (an empty question and
\* an empty document text are embedded and the model is called), but main()
\* rejects an empty extracted text (nothing is stored) and calls
\* ask_question only with a non-empty question and a non-empty document.
C17_OnlyMainRejectsEmptyInput ==
    [][/\ DirectCallEmbedsAndCalls
       /\ EmptyTextExtracted =>
              /\ session_state' = session_state
              /\ step' = "fail"
       /\ (pc = "chat" /\ pc' = "generate") =>
              /\ user_question.val # <<>>
              /\ HasDocument'
              /\ DocumentText' # <<>>
              /\ messages'[Len(messages')] =
                     [role |-> "user",
                      parts |-> <<PromptHead \o DocumentText' \o PromptMid
                                      \o user_question.val \o PromptTail>>]]_vars

C17_Witness ==
    /\ DirectReturned
    /\ session_state.document_text = <<>>
    /\ user_question = Some(<<>>)
    /\ calls = 1
    /\ sent[1] = <<[role |-> "user",
                    parts |-> <<PromptHead \o PromptMid \o PromptTail>>]>>
    /\ answer = Some(<<"a", "n", "s">>)

\* ------------------------------------------- one question at a time: claim

\* ask_question is between its entry to the retry loop and its return.
InFlight == pc \in {"generate", "sleep"}

====
